---- MODULE Spec2Model ----
(***************************************************************************)
(* Model of the GitHub file-operations MCP server's commit_files and       *)
(* delete_files tools (src/unnamed/part_000): the path handling of the two *)
(* handlers, their sequence of object-store requests, and the object store *)
(* (branch reference, commits, trees) those requests act on.               *)
(*                                                                         *)
(* Strings are sequences of one-character strings, so that startsWith,     *)
(* slice and path.join act on characters as they do in the source.         *)
(***************************************************************************)
EXTENDS Naturals, Sequences, FiniteSets

\* ---------------------------------------------------------------- bounds

\* Longest input path string, in characters (SpecPaths).
MaxPathLen == 4

\* Most paths in one request of the concurrent specifications.
MaxFiles == 2

\* ------------------------------------------------------------ environment

\* The characters input paths are made of.
PathChars == {"/", ".", "r", "e"}

\* process.env.REPO_DIR || process.cwd(): the repository directory "/r".
REPO_DIR == <<"/", "r">>

\* process.cwd(): the server is started in the repository directory.
cwd == <<"/", "r">>

\* The directories of the local file system, as segment lists: / and /r.
LocalDirs == { <<>>, << <<"r">> >> }

\* The regular files of the local file system: /r/e and /r/r inside the
\* repository directory, /e outside it.
LocalFiles == { << <<"r">>, <<"e">> >>, << <<"r">>, <<"r">> >>, << <<"e">> >> }

\* The two concurrent tool calls the MCP client may have in flight.
Calls == {"c1", "c2"}

\* The tools of the server modelled here.
Tools == {"commit_files", "delete_files"}

\* ------------------------------------------------------------ strings

\* All strings over PathChars of at most n characters.
Strings(n) == UNION { [1..k -> PathChars] : k \in 0..n }

\* String.prototype.startsWith
startsWith(s, prefix) ==
    /\ Len(prefix) <= Len(s)
    /\ SubSeq(s, 1, Len(prefix)) = prefix

\* String.prototype.slice(n) for 0 <= n: the string without its first n
\* characters, empty when n exceeds the length.
slice(s, n) == IF n >= Len(s) THEN <<>> ELSE SubSeq(s, n + 1, Len(s))

\* The segments of a path between its "/" characters.
RECURSIVE Split(_)
Split(s) ==
    IF s = <<>> THEN << <<>> >>
    ELSE LET rest == Split(Tail(s))
         IN  IF Head(s) = "/"
             THEN << <<>> >> \o rest
             ELSE << <<Head(s)>> \o Head(rest) >> \o Tail(rest)

\* path.normalize on the segments of an absolute path: empty and "."
\* segments vanish, ".." removes the segment before it (none at the root).
RECURSIVE ResolveSegs(_, _)
ResolveSegs(segs, acc) ==
    IF segs = <<>> THEN acc
    ELSE LET h == Head(segs)
         IN  ResolveSegs(Tail(segs),
                 IF h = <<>> \/ h = <<".">> THEN acc
                 ELSE IF h = <<".", ".">>
                      THEN (IF acc = <<>> THEN acc
                            ELSE SubSeq(acc, 1, Len(acc) - 1))
                      ELSE Append(acc, h))

\* The segments joined again under the root.
RECURSIVE JoinSegs(_)
JoinSegs(segs) ==
    IF segs = <<>> THEN <<>>
    ELSE <<"/">> \o Head(segs) \o JoinSegs(Tail(segs))

\* The location an absolute path string names: its resolved segments.
Resolve(abs) == ResolveSegs(Split(abs), <<>>)

\* path.normalize of an absolute path: a trailing "/" is kept.
Normalize(abs) ==
    LET segs == Resolve(abs)
    IN  IF segs = <<>> THEN <<"/">>
        ELSE JoinSegs(segs)
             \o (IF abs[Len(abs)] = "/" THEN <<"/">> ELSE <<>>)

\* path.join(dir, p) for an absolute dir.
join(dir, p) == Normalize(IF p = <<>> THEN dir ELSE dir \o <<"/">> \o p)

\* Whether a location lies inside the repository directory.
InsideRepo(loc) ==
    LET root == Resolve(REPO_DIR)
    IN  /\ Len(loc) > Len(root)
        /\ SubSeq(loc, 1, Len(root)) = root

\* The local file system's walk along the segments of an absolute path,
\* from directory cur: the location reached, or NoEnt when a segment is
\* missing (ENOENT) or follows something that is no directory (ENOTDIR).
NoEnt == << <<"ENOENT">> >>

RECURSIVE Walk(_, _)
Walk(segs, cur) ==
    IF segs = <<>> \/ cur = NoEnt THEN cur
    ELSE LET h == Head(segs)
         IN  IF cur \notin LocalDirs THEN NoEnt
             ELSE Walk(Tail(segs),
                       IF h = <<>> \/ h = <<".">> THEN cur
                       ELSE IF h = <<".", ".">>
                            THEN (IF cur = <<>> THEN cur
                                  ELSE SubSeq(cur, 1, Len(cur) - 1))
                            ELSE IF Append(cur, h) \in LocalDirs \cup LocalFiles
                                 THEN Append(cur, h)
                                 ELSE NoEnt)

\* The location readFile(fullPath) reads, NoEnt when the read throws.
ReadLocation(fullPath) ==
    LET loc == Walk(Split(fullPath), <<>>)
    IN  IF loc \in LocalFiles THEN loc ELSE NoEnt

\* readFile(fullPath, "utf-8"): each file's content names the file.
readFile(fullPath) == <<"content of">> \o JoinSegs(ReadLocation(fullPath))

\* ------------------------------------------------------- path handling

\* commit_files, processedFiles: one leading "/" is sliced off.
ProcessFile(filePath) ==
    IF startsWith(filePath, <<"/">>) THEN slice(filePath, 1) ELSE filePath

\* delete_files, processedPaths: an absolute path that starts with the
\* characters of cwd loses cwd.length + 1 characters, any other absolute
\* path throws.
PathRejected(filePath) ==
    startsWith(filePath, <<"/">>) /\ ~startsWith(filePath, cwd)

ProcessPath(filePath) ==
    IF startsWith(filePath, <<"/">>)
    THEN slice(filePath, Len(cwd) + 1)
    ELSE filePath

\* commit_files: files.map(...), the processed path of every file.
ProcessedFiles(files) == [i \in 1..Len(files) |-> ProcessFile(files[i])]

\* delete_files: paths.map(...), the processed path of every path.
ProcessedPaths(paths) == [i \in 1..Len(paths) |-> ProcessPath(paths[i])]

\* commit_files, step 3: the file a processed path is read from.
FullPath(filePath) ==
    IF startsWith(filePath, <<"/">>) THEN filePath ELSE join(REPO_DIR, filePath)

\* commit_files, step 3: processedFiles.map(...), the file of every path.
FullPaths(files) == [i \in 1..Len(files) |-> FullPath(files[i])]

\* ------------------------------------------------------------- state

VARIABLES
    githubToken,  \* process.env.GITHUB_TOKEN, "" when it is not set
    branch,       \* the store's refs/heads/BRANCH_NAME: a commit sha
    commits,      \* the store's commit objects, commits[sha]
    trees,        \* the store's tree objects, trees[sha]: a set of files
    calls,        \* per tool call: its arguments, position and locals
    setup,        \* the run of setupGitHubToken: its position and locals
    prepare       \* the run of the prepare entrypoint: its position and locals

vars == <<githubToken, branch, commits, trees, calls, setup, prepare>>

\* What a non-2xx response of the store carries: its status and its text.
FailStatus == "500"
FailText == "Server Error"
RejectStatus == "422"
RejectText == "Update is not a fast forward"

\* The commit messages a call may carry.
Messages == {"init"}

\* A handler that was not invoked yet. Beside the handler's locals, a call
\* logs the requests it sent (ops), the statuses it got (responses), the
\* order in which its reads completed (readOrder) and, when its caller ran
\* it again, the tip of the branch at that time (retryTip).
IdleCall ==
    [tool |-> "none", files |-> <<>>, message |-> "", pc |-> "idle",
     processed |-> <<>>, baseSha |-> 0, baseTreeSha |-> 0,
     fullPaths |-> <<>>, readDone |-> {}, readOrder |-> <<>>,
     treeEntries |-> <<>>,
     treeSha |-> 0, newCommitSha |-> 0, ops |-> <<>>, responses |-> <<>>,
     isError |-> FALSE, error |-> <<>>, result |-> <<>>, retryTip |-> 0]

\* setupGitHubToken before it runs, with OVERRIDE_GITHUB_TOKEN as given ("":
\* not set). Beside the locals of setupGitHubToken and of the running
\* retryWithBackoff (phase, attempt, delayMs, lastError), the run logs the
\* operations invoked, the values they returned, the errors they threw and
\* the waits made, and holds
\* what the run set: the GITHUB_TOKEN output, the failure message and the
\* exit code.
IdleSetup(providedToken) ==
    [pc |-> "start", providedToken |-> providedToken, phase |-> "none",
     attempt |-> 0, delayMs |-> 0, lastError |-> "", oidcToken |-> "",
     operations |-> <<>>, resolved |-> <<>>, errors |-> <<>>, waits |-> <<>>,
     output |-> "", returned |-> "", failed |-> <<>>, exitCode |-> 0]

\* The prepare entrypoint at the start of run(), awaiting setupGitHubToken.
\* Beside claudeBranch of the branch that was set up, the run logs the
\* steps it invoked and the checks that passed (events), the result of the
\* trigger check and what threw, and holds what the run set: the
\* mcp_config output, the failure message and the exit code.
IdlePrepare ==
    [pc |-> "setupGitHubToken", events |-> <<>>, containsTrigger |-> "unknown",
     claudeBranch |-> "", thrown |-> <<>>, mcpConfig |-> "",
     failed |-> <<>>, exitCode |-> 0]

\* The repository when the server starts: a root commit with an empty tree
\* and, on top of it, the branch tip, whose tree holds the file "e". The
\* token setup ran before the server and is over.
Init ==
    /\ setup = IdleSetup("")
    /\ prepare = IdlePrepare
    /\ githubToken \in {"", "ghs_token"}
    /\ trees = << {}, { [path |-> <<"e">>, content |-> <<"old">>] } >>
    /\ commits = << [tree |-> 1, parents |-> <<>>, message |-> "root"],
                    [tree |-> 2, parents |-> <<1>>, message |-> "base"] >>
    /\ branch = 2
    /\ calls = [c \in Calls |-> IdleCall]

\* ------------------------------------------------------------- the store

\* Whether commit a is commit b or one of its ancestors.
RECURSIVE IsAncestor(_, _)
IsAncestor(a, b) ==
    \/ a = b
    \/ \E i \in 1..Len(commits[b].parents) : IsAncestor(a, commits[b].parents[i])

\* Mutant of FastForward: the update is sent with force: true.
FastForward_Forced(sha) == TRUE

\* update-ref with force: false: the request carries the new sha only, and
\* the store accepts it when it fast-forwards the reference.
FastForward(sha) == IsAncestor(branch, sha)

\* create-tree: the base tree with the entries applied in their order, a
\* content entry writing its path and a null-sha entry removing it.
RECURSIVE ApplyEntries(_, _)
ApplyEntries(tree, entries) ==
    IF entries = <<>> THEN tree
    ELSE LET e == Head(entries)
             others == { f \in tree : f.path # e.path }
         IN  ApplyEntries(
                 IF "sha" \in DOMAIN e THEN others
                 ELSE others \cup { [path |-> e.path, content |-> e.content] },
                 Tail(entries))

\* ------------------------------------------------------------ the handlers

\* Mutant of Throw: the catch block returns the message as a plain result.
Throw_Swallowed(call, errorMessage) ==
    [call EXCEPT !.pc = "returned", !.error = errorMessage]

\* The catch block: the handler returns an error result.
Throw(call, errorMessage) ==
    [call EXCEPT !.pc = "returned", !.isError = TRUE, !.error = errorMessage]

\* The handler is suspended in the fetch of the store operation op.
Fetch(call, op) == [call EXCEPT !.pc = op, !.ops = Append(@, op)]

\* The fetch the handler is suspended in returns a response of this status.
OkStatus == "200"
Respond(call, status) == [call EXCEPT !.responses = Append(@, status)]

\* Mutant of CommitFiles: the token check is missing.
CommitFiles_NoTokenCheck(c, files, message) ==
    /\ calls[c].pc = "idle"
    /\ calls' = [calls EXCEPT ![c] =
           Fetch([@ EXCEPT !.tool = "commit_files", !.files = files,
                           !.message = message,
                           !.processed = ProcessedFiles(files)],
                 "get-ref")]
    /\ UNCHANGED <<prepare, setup, githubToken, branch, commits, trees>>

\* commit_files up to its first await: the token check, processedFiles and
\* the get-ref request.
CommitFiles(c, files, message) ==
    /\ calls[c].pc = "idle"
    /\ LET call == [calls[c] EXCEPT !.tool = "commit_files",
                                    !.files = files, !.message = message]
       IN  calls' = [calls EXCEPT ![c] =
               IF githubToken = ""
               THEN Throw(call, <<"GITHUB_TOKEN environment variable is required">>)
               ELSE Fetch([call EXCEPT !.processed = ProcessedFiles(files)],
                          "get-ref")]
    /\ UNCHANGED <<prepare, setup, githubToken, branch, commits, trees>>

\* delete_files up to its first await: the token check, processedPaths
\* (which throws at the first path it rejects) and the get-ref request.
DeleteFiles(c, paths, message) ==
    /\ calls[c].pc = "idle"
    /\ LET call == [calls[c] EXCEPT !.tool = "delete_files",
                                    !.files = paths, !.message = message]
           bad == { i \in 1..Len(paths) : PathRejected(paths[i]) }
           first == CHOOSE i \in bad : \A j \in bad : i <= j
       IN  calls' = [calls EXCEPT ![c] =
               IF githubToken = ""
               THEN Throw(call, <<"GITHUB_TOKEN environment variable is required">>)
               ELSE IF bad # {}
               THEN Throw(call, <<"Path '">> \o paths[first] \o
                    <<"' must be relative to repository root or within current working directory">>)
               ELSE Fetch([call EXCEPT !.processed = ProcessedPaths(paths)],
                          "get-ref")]
    /\ UNCHANGED <<prepare, setup, githubToken, branch, commits, trees>>

\* Mutant of GetRefResponse: a failed get-ref is sent again.
GetRefResponse_Retry(c) ==
    /\ calls[c].pc = "get-ref"
    /\ \/ calls' = [calls EXCEPT ![c] =
              Fetch([Respond(@, OkStatus) EXCEPT !.baseSha = branch], "get-commit")]
       \/ calls' = [calls EXCEPT ![c] = Fetch(Respond(@, FailStatus), "get-ref")]
    /\ UNCHANGED <<prepare, setup, githubToken, branch, commits, trees>>

\* Step 1, the get-ref response: the branch's sha becomes baseSha and the
\* base commit is requested, or a non-2xx response throws.
GetRefResponse(c) ==
    /\ calls[c].pc = "get-ref"
    /\ \/ calls' = [calls EXCEPT ![c] =
              Fetch([Respond(@, OkStatus) EXCEPT !.baseSha = branch], "get-commit")]
       \/ calls' = [calls EXCEPT ![c] =
              Throw(Respond(@, FailStatus),
                    <<"Failed to get branch reference: ", FailStatus>>)]
    /\ UNCHANGED <<prepare, setup, githubToken, branch, commits, trees>>

\* Mutant of DeletionEntries: the entries write an empty content.
DeletionEntries_EmptyContent(processedPaths) ==
    [i \in 1..Len(processedPaths) |->
        [path |-> processedPaths[i], mode |-> "100644", type |-> "blob",
         content |-> <<>>]]

\* delete_files, step 3: one null-sha entry per processed path.
DeletionEntries(processedPaths) ==
    [i \in 1..Len(processedPaths) |->
        [path |-> processedPaths[i], mode |-> "100644", type |-> "blob",
         sha |-> "null"]]

\* Mutant of ContentEntries: only the first file gets an entry.
ContentEntries_FirstOnly(processedFiles, fullPaths) ==
    [i \in 1..1 |->
        [path |-> processedFiles[i], mode |-> "100644", type |-> "blob",
         content |-> readFile(fullPaths[i])]]

\* commit_files, step 3: one content entry per processed path, in the order
\* of the paths (Promise.all keeps the order of its promises).
ContentEntries(processedFiles, fullPaths) ==
    [i \in 1..Len(processedFiles) |->
        [path |-> processedFiles[i], mode |-> "100644", type |-> "blob",
         content |-> readFile(fullPaths[i])]]

\* Mutant of GetCommitResponse: the tree is taken from the commit the
\* branch points at when the response is made.
GetCommitResponse_TipTree(c) ==
    /\ calls[c].pc = "get-commit"
    /\ LET call == [Respond(calls[c], OkStatus) EXCEPT
                        !.baseTreeSha = commits[branch].tree]
       IN  calls' = [calls EXCEPT ![c] =
               IF call.tool = "delete_files"
               THEN Fetch([call EXCEPT !.treeEntries = DeletionEntries(call.processed)],
                          "create-tree")
               ELSE IF call.processed = <<>>
               THEN Fetch(call, "create-tree")
               ELSE [call EXCEPT !.pc = "readFile",
                                 !.fullPaths = FullPaths(call.processed)]]
    /\ UNCHANGED <<prepare, setup, githubToken, branch, commits, trees>>

\* Step 2, the get-commit response: the base commit's tree becomes
\* baseTreeSha. delete_files then builds its entries and requests the tree;
\* commit_files starts the reads of all its files at once (with no file,
\* Promise.all resolves at once and the tree is requested).
GetCommitResponse(c) ==
    /\ calls[c].pc = "get-commit"
    /\ \/ LET call == [Respond(calls[c], OkStatus) EXCEPT
                           !.baseTreeSha = commits[calls[c].baseSha].tree]
          IN  calls' = [calls EXCEPT ![c] =
                  IF call.tool = "delete_files"
                  THEN Fetch([call EXCEPT !.treeEntries = DeletionEntries(call.processed)],
                             "create-tree")
                  ELSE IF call.processed = <<>>
                  THEN Fetch(call, "create-tree")
                  ELSE [call EXCEPT !.pc = "readFile",
                                    !.fullPaths = FullPaths(call.processed)]]
       \/ calls' = [calls EXCEPT ![c] =
              Throw(Respond(@, FailStatus),
                    <<"Failed to get base commit: ", FailStatus>>)]
    /\ UNCHANGED <<prepare, setup, githubToken, branch, commits, trees>>

\* Mutant of ReadFileDone: each read pushes its entry when it completes.
ReadFileDone_PushOnCompletion(c, i) ==
    /\ calls[c].pc = "readFile"
    /\ i \in (1..Len(calls[c].processed)) \ calls[c].readDone
    /\ LET call == [calls[c] EXCEPT
                       !.readDone = @ \cup {i},
                       !.readOrder = Append(@, i),
                       !.treeEntries = Append(@,
                           [path |-> calls[c].processed[i], mode |-> "100644",
                            type |-> "blob",
                            content |-> readFile(calls[c].fullPaths[i])])]
       IN  calls' = [calls EXCEPT ![c] =
               IF ReadLocation(call.fullPaths[i]) = NoEnt
               THEN Throw(calls[c], <<"ENOENT: no such file or directory, open '">>
                                    \o call.fullPaths[i] \o <<"'">>)
               ELSE IF call.readDone = 1..Len(call.processed)
               THEN Fetch(call, "create-tree")
               ELSE call]
    /\ UNCHANGED <<prepare, setup, githubToken, branch, commits, trees>>

\* Mutant of ReadFileDone: a file that is missing is read as empty instead
\* of rejecting the read.
ReadFileDone_SkipMissing(c, i) ==
    /\ calls[c].pc = "readFile"
    /\ i \in (1..Len(calls[c].processed)) \ calls[c].readDone
    /\ LET call == [calls[c] EXCEPT !.readDone = @ \cup {i},
                                    !.readOrder = Append(@, i)]
       IN  calls' = [calls EXCEPT ![c] =
               IF call.readDone = 1..Len(call.processed)
               THEN Fetch([call EXCEPT !.treeEntries =
                               ContentEntries(call.processed, call.fullPaths)],
                          "create-tree")
               ELSE call]
    /\ UNCHANGED <<prepare, setup, githubToken, branch, commits, trees>>

\* commit_files, step 3: the read of the i-th file completes, in any order
\* among the reads. A read that throws rejects Promise.all; the last read
\* to complete builds the entries and requests the tree.
ReadFileDone(c, i) ==
    /\ calls[c].pc = "readFile"
    /\ i \in (1..Len(calls[c].processed)) \ calls[c].readDone
    /\ LET call == [calls[c] EXCEPT !.readDone = @ \cup {i},
                                    !.readOrder = Append(@, i)]
       IN  calls' = [calls EXCEPT ![c] =
               IF ReadLocation(call.fullPaths[i]) = NoEnt
               THEN Throw(calls[c], <<"ENOENT: no such file or directory, open '">>
                                    \o call.fullPaths[i] \o <<"'">>)
               ELSE IF call.readDone = 1..Len(call.processed)
               THEN Fetch([call EXCEPT !.treeEntries =
                               ContentEntries(call.processed, call.fullPaths)],
                          "create-tree")
               ELSE call]
    /\ UNCHANGED <<prepare, setup, githubToken, branch, commits, trees>>

\* Mutant of CreateTreeResponse: the tree is built without the base tree.
CreateTreeResponse_NoBase(c) ==
    /\ calls[c].pc = "create-tree"
    /\ \/ /\ trees' = Append(trees, ApplyEntries({}, calls[c].treeEntries))
          /\ calls' = [calls EXCEPT ![c] =
                 Fetch([Respond(@, OkStatus) EXCEPT !.treeSha = Len(trees) + 1],
                       "create-commit")]
       \/ /\ calls' = [calls EXCEPT ![c] =
                 Throw(Respond(@, FailStatus),
                       <<"Failed to create tree: ", FailStatus, " - ", FailText>>)]
          /\ UNCHANGED trees
    /\ UNCHANGED <<prepare, setup, githubToken, branch, commits>>

\* Step 4, the create-tree response: the store holds the new tree and the
\* commit is requested, or a non-2xx response throws with its text.
CreateTreeResponse(c) ==
    /\ calls[c].pc = "create-tree"
    /\ \/ /\ trees' = Append(trees,
                 ApplyEntries(trees[calls[c].baseTreeSha], calls[c].treeEntries))
          /\ calls' = [calls EXCEPT ![c] =
                 Fetch([Respond(@, OkStatus) EXCEPT !.treeSha = Len(trees) + 1],
                       "create-commit")]
       \/ /\ calls' = [calls EXCEPT ![c] =
                 Throw(Respond(@, FailStatus),
                       <<"Failed to create tree: ", FailStatus, " - ", FailText>>)]
          /\ UNCHANGED trees
    /\ UNCHANGED <<prepare, setup, githubToken, branch, commits>>

\* Mutant of CreateCommitResponse: the parent of the new commit is the tip
\* of the branch when the commit is created.
CreateCommitResponse_ParentTip(c) ==
    /\ calls[c].pc = "create-commit"
    /\ commits' = Append(commits,
           [tree |-> calls[c].treeSha, parents |-> <<branch>>,
            message |-> calls[c].message])
    /\ calls' = [calls EXCEPT ![c] =
           Fetch([Respond(@, OkStatus) EXCEPT !.newCommitSha = Len(commits) + 1],
                 "update-ref")]
    /\ UNCHANGED <<prepare, setup, githubToken, branch, trees>>

\* Mutant of CreateCommitResponse: on a non-2xx response the handler
\* neither throws nor goes on; its promise never settles.
CreateCommitResponse_Hang(c) ==
    /\ calls[c].pc = "create-commit"
    /\ \/ /\ commits' = Append(commits,
                 [tree |-> calls[c].treeSha, parents |-> <<calls[c].baseSha>>,
                  message |-> calls[c].message])
          /\ calls' = [calls EXCEPT ![c] =
                 Fetch([Respond(@, OkStatus) EXCEPT !.newCommitSha = Len(commits) + 1],
                       "update-ref")]
       \/ /\ calls' = [calls EXCEPT ![c] =
                 [Respond(@, FailStatus) EXCEPT !.pc = "pending"]]
          /\ UNCHANGED commits
    /\ UNCHANGED <<prepare, setup, githubToken, branch, trees>>

\* Step 5, the create-commit response: the store holds the new commit, whose
\* parent is baseSha, and the reference update is requested.
CreateCommitResponse(c) ==
    /\ calls[c].pc = "create-commit"
    /\ \/ /\ commits' = Append(commits,
                 [tree |-> calls[c].treeSha, parents |-> <<calls[c].baseSha>>,
                  message |-> calls[c].message])
          /\ calls' = [calls EXCEPT ![c] =
                 Fetch([Respond(@, OkStatus) EXCEPT !.newCommitSha = Len(commits) + 1],
                       "update-ref")]
       \/ /\ calls' = [calls EXCEPT ![c] =
                 Throw(Respond(@, FailStatus),
                       <<"Failed to create commit: ", FailStatus, " - ", FailText>>)]
          /\ UNCHANGED commits
    /\ UNCHANGED <<prepare, setup, githubToken, branch, trees>>

\* Mutant of SimplifiedResult: the result lists the paths as requested.
SimplifiedResult_AsRequested(call) ==
    IF call.tool = "delete_files"
    THEN [commit |-> call.newCommitSha, deletedFiles |-> call.files,
          tree |-> call.treeSha]
    ELSE [commit |-> call.newCommitSha, files |-> call.files,
          tree |-> call.treeSha]

\* The simplifiedResult of a successful call: commit_files lists its paths
\* as files, delete_files as deletedFiles.
SimplifiedResult(call) ==
    IF call.tool = "delete_files"
    THEN [commit |-> call.newCommitSha, deletedFiles |-> call.processed,
          tree |-> call.treeSha]
    ELSE [commit |-> call.newCommitSha, files |-> call.processed,
          tree |-> call.treeSha]

\* The paths a result lists.
AffectedPaths(result) ==
    IF "deletedFiles" \in DOMAIN result THEN result.deletedFiles ELSE result.files

\* Mutant of UpdateRefResponse: the update is sent with force: true and the
\* store moves the branch whatever its tip is.
UpdateRefResponse_Force(c) ==
    /\ calls[c].pc = "update-ref"
    /\ \/ /\ branch' = calls[c].newCommitSha
          /\ calls' = [calls EXCEPT ![c] =
                 [Respond(@, OkStatus) EXCEPT !.pc = "returned",
                                              !.result = SimplifiedResult(calls[c])]]
       \/ /\ calls' = [calls EXCEPT ![c] =
                 Throw(Respond(@, FailStatus),
                       <<"Failed to update reference: ", FailStatus, " - ", FailText>>)]
          /\ UNCHANGED branch
    /\ UNCHANGED <<prepare, setup, githubToken, commits, trees>>

\* Mutant of UpdateRefResponse: the handler throws after the store moved
\* the branch.
UpdateRefResponse_ThrowAfterUpdate(c) ==
    /\ calls[c].pc = "update-ref"
    /\ FastForward(calls[c].newCommitSha)
    /\ branch' = calls[c].newCommitSha
    /\ calls' = [calls EXCEPT ![c] =
           Throw(Respond(@, OkStatus), <<"Cannot read properties of undefined">>)]
    /\ UNCHANGED <<prepare, setup, githubToken, commits, trees>>

\* Step 6, the update-ref response: the store moves the branch to the new
\* commit when that is a fast-forward and the handler returns its result;
\* the store rejects any other update, and any non-2xx response throws.
UpdateRefResponse(c) ==
    /\ calls[c].pc = "update-ref"
    /\ \/ /\ FastForward(calls[c].newCommitSha)
          /\ branch' = calls[c].newCommitSha
          /\ calls' = [calls EXCEPT ![c] =
                 [Respond(@, OkStatus) EXCEPT !.pc = "returned",
                                              !.result = SimplifiedResult(calls[c])]]
       \/ /\ ~FastForward(calls[c].newCommitSha)
          /\ calls' = [calls EXCEPT ![c] =
                 Throw(Respond(@, RejectStatus),
                       <<"Failed to update reference: ", RejectStatus, " - ", RejectText>>)]
          /\ UNCHANGED branch
       \/ /\ calls' = [calls EXCEPT ![c] =
                 Throw(Respond(@, FailStatus),
                       <<"Failed to update reference: ", FailStatus, " - ", FailText>>)]
          /\ UNCHANGED branch
    /\ UNCHANGED <<prepare, setup, githubToken, commits, trees>>

\* Another client of the store moves the branch to any commit of the store
\* with a forced update of the reference.
ForcePush(sha) ==
    /\ sha \in 1..Len(commits)
    /\ sha # branch
    /\ branch' = sha
    /\ UNCHANGED <<prepare, setup, githubToken, commits, trees, calls>>

\* Mutant of Rerun: the caller resumes the rejected call at its update-ref,
\* with the commit it built on the base it read before.
Rerun_Resume(c) ==
    /\ calls[c].pc = "returned" /\ calls[c].isError
    /\ calls[c].retryTip = 0
    /\ calls[c].responses # <<>>
    /\ calls[c].responses[Len(calls[c].responses)] = RejectStatus
    /\ calls' = [calls EXCEPT ![c] =
           Fetch([@ EXCEPT !.isError = FALSE, !.error = <<>>, !.retryTip = branch],
                 "update-ref")]
    /\ UNCHANGED <<prepare, setup, githubToken, branch, commits, trees>>

\* The caller of a call whose update-ref the store rejected invokes the
\* same tool again with the same arguments: the handler runs from its top,
\* with fresh locals, up to its get-ref request.
Rerun(c) ==
    /\ calls[c].pc = "returned" /\ calls[c].isError
    /\ calls[c].retryTip = 0
    /\ calls[c].responses # <<>>
    /\ calls[c].responses[Len(calls[c].responses)] = RejectStatus
    /\ calls' = [calls EXCEPT ![c] =
           Fetch([IdleCall EXCEPT !.tool = calls[c].tool,
                                  !.files = calls[c].files,
                                  !.message = calls[c].message,
                                  !.processed = calls[c].processed,
                                  !.retryTip = branch],
                 "get-ref")]
    /\ UNCHANGED <<prepare, setup, githubToken, branch, commits, trees>>

\* ------------------------------------------------------- the token setup

\* The defaults of retryWithBackoff's options; no caller passes options.
maxAttempts == 3
initialDelayMs == 5000
maxDelayMs == 20000
backoffFactor == 2

\* Math.min.
Min(a, b) == IF a <= b THEN a ELSE b

\* The tokens core.getIDToken may return, one per request.
OidcTokens == {"oidc-1", "oidc-2"}

\* The app tokens the exchange service may return.
AppTokens == {"ghs_app"}

\* The one error getOidcToken throws, whatever core.getIDToken threw (the
\* first sentence of its message).
OidcError ==
    "Could not fetch an OIDC token."

\* The errors exchangeForAppToken throws: the message of a non-2xx
\* response, "Unknown error" when that has none, and a 2xx response that
\* holds no token.
ExchangeErrors ==
    {"Repository not authorized", "Unknown error", "App token not found in response"}

\* What an operation of a phase may return and throw.
Values(phase) == IF phase = "oidc" THEN OidcTokens ELSE AppTokens
Errors(phase) == IF phase = "oidc" THEN {OidcError} ELSE ExchangeErrors

\* Mutant of LoopContinues: the loop's test lets one attempt more through.
LoopContinues_OneMore(attempt) == attempt <= maxAttempts + 1

\* retryWithBackoff, the test of the for loop.
LoopContinues(attempt) == attempt <= maxAttempts

\* Mutant of Waits: the wait is made after every failed attempt.
Waits_AfterLast(attempt) == TRUE

\* retryWithBackoff, the test in the catch: whether a wait follows the
\* failed attempt.
Waits(attempt) == attempt < maxAttempts

\* retryWithBackoff, the delay after a wait of delayMs.
NextDelay(delayMs) == Min(delayMs * backoffFactor, maxDelayMs)

\* Mutant of Invoke: each retry of the exchange is made with an OIDC token
\* fetched anew.
Invoke_FreshToken(s) ==
    [s EXCEPT !.pc = "operation",
              !.operations = Append(@,
                  [phase |-> s.phase, attempt |-> s.attempt,
                   oidcToken |-> IF s.phase = "exchange" /\ s.attempt > 1
                                 THEN CHOOSE t \in OidcTokens : t # s.oidcToken
                                 ELSE s.oidcToken])]

\* The operation of a phase is invoked: getOidcToken(), or
\* exchangeForAppToken(oidcToken) with the token the closure holds.
Invoke(s) ==
    [s EXCEPT !.pc = "operation",
              !.operations = Append(@, [phase |-> s.phase, attempt |-> s.attempt,
                                        oidcToken |-> s.oidcToken])]

\* retryWithBackoff(operation) up to its first await: the first attempt.
RetryWithBackoff(s, phase) ==
    Invoke([s EXCEPT !.phase = phase, !.attempt = 1,
                     !.delayMs = initialDelayMs, !.lastError = ""])

\* retryWithBackoff, the end of one turn of the loop: the attempt is
\* counted and the operation is invoked again, or the loop is over,
\* lastError is thrown and the catch of setupGitHubToken marks the action
\* failed and exits with code 1.
Continue(s) ==
    LET t == [s EXCEPT !.attempt = @ + 1]
    IN  IF LoopContinues(t.attempt)
        THEN Invoke(t)
        ELSE [t EXCEPT !.pc = "exited", !.exitCode = 1,
                       !.failed = <<"Failed to setup GitHub token: Error: ",
                                    t.lastError>>]

\* core.setOutput("GITHUB_TOKEN", token) and the return of the token.
SetOutput(s, token) ==
    [s EXCEPT !.pc = "returned", !.output = token, !.returned = token]

\* Mutant of SetupGitHubToken: the override token is not looked at.
SetupGitHubToken_IgnoreOverride ==
    /\ setup.pc = "start"
    /\ setup' = RetryWithBackoff(setup, "oidc")
    /\ UNCHANGED <<prepare, githubToken, branch, commits, trees, calls>>

\* setupGitHubToken up to its first await: the override token is set as
\* the output and returned, or the OIDC token is requested.
SetupGitHubToken ==
    /\ setup.pc = "start"
    /\ setup' = IF setup.providedToken # ""
                THEN SetOutput(setup, setup.providedToken)
                ELSE RetryWithBackoff(setup, "oidc")
    /\ UNCHANGED <<prepare, githubToken, branch, commits, trees, calls>>

\* The awaited operation returns a value: retryWithBackoff returns it; the
\* OIDC token is kept and the exchange starts, or the app token is set as
\* the output and returned.
OperationResolves(value) ==
    /\ setup.pc = "operation"
    /\ value \in Values(setup.phase)
    /\ LET s == [setup EXCEPT !.resolved =
                     Append(@, [phase |-> setup.phase, attempt |-> setup.attempt,
                                value |-> value])]
       IN  setup' = IF s.phase = "oidc"
                    THEN RetryWithBackoff([s EXCEPT !.oidcToken = value], "exchange")
                    ELSE SetOutput(s, value)
    /\ UNCHANGED <<prepare, githubToken, branch, commits, trees, calls>>

\* The awaited operation throws: retryWithBackoff keeps the error and
\* waits delayMs, or after the last attempt goes to the end of the loop.
OperationRejects(error) ==
    /\ setup.pc = "operation"
    /\ error \in Errors(setup.phase)
    /\ LET s == [setup EXCEPT !.lastError = error,
                              !.errors = Append(@, [phase |-> setup.phase,
                                                    attempt |-> setup.attempt,
                                                    error |-> error])]
       IN  setup' = IF Waits(s.attempt)
                    THEN [s EXCEPT !.pc = "wait"]
                    ELSE Continue(s)
    /\ UNCHANGED <<prepare, githubToken, branch, commits, trees, calls>>

\* The timer of the wait fires after delayMs: the delay grows and the loop
\* goes on.
TimeoutFires ==
    /\ setup.pc = "wait"
    /\ setup' = Continue([setup EXCEPT
                    !.waits = Append(@, [phase |-> setup.phase,
                                         attempt |-> setup.attempt,
                                         ms |-> setup.delayMs]),
                    !.delayMs = NextDelay(setup.delayMs)])
    /\ UNCHANGED <<prepare, githubToken, branch, commits, trees, calls>>

\* ------------------------------------------------- the prepare entrypoint

\* The steps of run() that are awaited after the token setup, in their
\* order in the code.
PrepareSteps ==
    <<"checkWritePermissions", "checkTriggerAction", "checkHumanActor",
      "createInitialComment", "fetchGitHubData", "setupBranch",
      "updateTrackingComment", "createPrompt", "prepareMcpConfig">>

\* The branch names setupBranch may return as claudeBranch ("": none).
ClaudeBranches == {"", "claude/issue-1"}

\* run() calls a step and awaits it.
Call(p, step) ==
    [p EXCEPT !.pc = step,
              !.events = Append(@, [step |-> step, event |-> "invoked"])]

\* The awaited check of run() returned and let the run go on.
Passed(p) == [p EXCEPT !.events = Append(@, [step |-> p.pc, event |-> "passed"])]

\* The catch of run(): core.setFailed and process.exit(1).
Fail(p, error) ==
    [p EXCEPT !.pc = "exited", !.thrown = Append(@, error),
              !.failed = <<"Prepare step failed with error: ", error>>,
              !.exitCode = 1]

\* setupGitHubToken returned the token: the context is parsed, which may
\* throw, and the write permissions are asked for.
TokenReturned ==
    /\ prepare.pc = "setupGitHubToken"
    /\ setup.pc = "returned"
    /\ \/ prepare' = Call(Passed(prepare), "checkWritePermissions")
       \/ prepare' = Fail(prepare, "Error: parseGitHubContext")
    /\ UNCHANGED <<setup, githubToken, branch, commits, trees, calls>>

\* checkWritePermissions returned: without write permissions run() throws.
WritePermissionsChecked(hasWritePermissions) ==
    /\ prepare.pc = "checkWritePermissions"
    /\ prepare' = IF hasWritePermissions
                  THEN Call(Passed(prepare), "checkTriggerAction")
                  ELSE Fail(prepare,
                        "Error: Actor does not have write permissions to the repository")
    /\ UNCHANGED <<setup, githubToken, branch, commits, trees, calls>>

\* Mutant of TriggerChecked: without a trigger the run goes on.
TriggerChecked_NoReturn(containsTrigger) ==
    /\ prepare.pc = "checkTriggerAction"
    /\ prepare' = Call([Passed(prepare) EXCEPT
                            !.containsTrigger = IF containsTrigger THEN "yes" ELSE "no"],
                       "checkHumanActor")
    /\ UNCHANGED <<setup, githubToken, branch, commits, trees, calls>>

\* checkTriggerAction returned: without a trigger run() returns.
TriggerChecked(containsTrigger) ==
    /\ prepare.pc = "checkTriggerAction"
    /\ prepare' = IF containsTrigger
                  THEN Call([Passed(prepare) EXCEPT !.containsTrigger = "yes"],
                            "checkHumanActor")
                  ELSE [prepare EXCEPT !.containsTrigger = "no", !.pc = "returned"]
    /\ UNCHANGED <<setup, githubToken, branch, commits, trees, calls>>

\* checkHumanActor returned: the tracking comment is created.
HumanActorChecked ==
    /\ prepare.pc = "checkHumanActor"
    /\ prepare' = Call(Passed(prepare), "createInitialComment")
    /\ UNCHANGED <<setup, githubToken, branch, commits, trees, calls>>

\* createInitialComment returned: the data is fetched.
CommentCreated ==
    /\ prepare.pc = "createInitialComment"
    /\ prepare' = Call(prepare, "fetchGitHubData")
    /\ UNCHANGED <<setup, githubToken, branch, commits, trees, calls>>

\* fetchGitHubData returned: the branch is set up.
DataFetched ==
    /\ prepare.pc = "fetchGitHubData"
    /\ prepare' = Call(prepare, "setupBranch")
    /\ UNCHANGED <<setup, githubToken, branch, commits, trees, calls>>

\* setupBranch returned: with a new branch the tracking comment is updated,
\* otherwise the prompt is created.
BranchSetUp(claudeBranch) ==
    /\ prepare.pc = "setupBranch"
    /\ prepare' = Call([prepare EXCEPT !.claudeBranch = claudeBranch],
                       IF claudeBranch # "" THEN "updateTrackingComment"
                       ELSE "createPrompt")
    /\ UNCHANGED <<setup, githubToken, branch, commits, trees, calls>>

\* updateTrackingComment returned: the prompt is created.
TrackingCommentUpdated ==
    /\ prepare.pc = "updateTrackingComment"
    /\ prepare' = Call(prepare, "createPrompt")
    /\ UNCHANGED <<setup, githubToken, branch, commits, trees, calls>>

\* createPrompt returned: the MCP configuration is asked for.
PromptCreated ==
    /\ prepare.pc = "createPrompt"
    /\ prepare' = Call(prepare, "prepareMcpConfig")
    /\ UNCHANGED <<setup, githubToken, branch, commits, trees, calls>>

\* prepareMcpConfig returned: the mcp_config output is set and run() ends.
McpConfigPrepared ==
    /\ prepare.pc = "prepareMcpConfig"
    /\ prepare' = [prepare EXCEPT
                       !.pc = "returned", !.mcpConfig = "mcp-config",
                       !.events = Append(@, [step |-> "mcp_config", event |-> "set"])]
    /\ UNCHANGED <<setup, githubToken, branch, commits, trees, calls>>

\* The awaited step throws.
StepThrows ==
    /\ \E k \in 1..Len(PrepareSteps) : prepare.pc = PrepareSteps[k]
    /\ prepare' = Fail(prepare, "Error: " \o prepare.pc)
    /\ UNCHANGED <<setup, githubToken, branch, commits, trees, calls>>

\* ------------------------------------------------------- specifications

\* The paths of the requests of the concurrent specifications.
RepoPaths == { <<"e">>, <<"r">> }

\* The lists of at most n paths over a set of paths.
PathLists(paths, n) == UNION { [1..k -> paths] : k \in 0..n }

\* The steps of the calls cs whose requests are drawn from requests.
CallsNext(cs, requests) ==
    \/ \E c \in cs, files \in requests, message \in Messages :
           CommitFiles(c, files, message)
    \/ \E c \in cs, paths \in requests, message \in Messages :
           DeleteFiles(c, paths, message)
    \/ \E c \in cs : GetRefResponse(c)
    \/ \E c \in cs : GetCommitResponse(c)
    \/ \E c \in cs, i \in 1..MaxFiles : ReadFileDone(c, i)
    \/ \E c \in cs : CreateTreeResponse(c)
    \/ \E c \in cs : CreateCommitResponse(c)
    \/ \E c \in cs : UpdateRefResponse(c)

\* Two concurrent calls on the files of the repository.
Next == CallsNext(Calls, PathLists(RepoPaths, MaxFiles))

Spec == Init /\ [][Next]_vars

\* The same calls beside another client that force-updates the branch.
NextExt ==
    \/ Next
    \/ \E sha \in 1..Len(commits) : ForcePush(sha)

SpecExt == Init /\ [][NextExt]_vars

\* One call at a time with one path, any string of at most MaxPathLen
\* characters, or with no path.
NextPaths == CallsNext({"c1"}, PathLists(Strings(MaxPathLen), 1))

SpecPaths == Init /\ [][NextPaths]_vars

\* The paths of the requests of SpecLists: the files e and r of the
\* repository, their absolute forms "/e" (as commit_files takes it) and
\* "/r/e" (as delete_files takes it), and "ee", which no local file has.
ListPaths ==
    { <<"e">>, <<"r">>, <<"/", "e">>, <<"/", "r", "/", "e">>, <<"e", "e">> }

\* One call at a time with a list of at most MaxFiles of these paths.
NextLists == CallsNext({"c1"}, PathLists(ListPaths, MaxFiles))

SpecLists == Init /\ [][NextLists]_vars

\* Two concurrent calls with at most one path each, each of which its
\* caller runs again, once, after the store rejected its update-ref.
NextRetry ==
    \/ CallsNext(Calls, PathLists(RepoPaths, 1))
    \/ \E c \in Calls : Rerun(c)

SpecRetry == Init /\ [][NextRetry]_vars

\* The request or read that call c waits for returns.
Returns(c) ==
    \/ GetRefResponse(c)
    \/ GetCommitResponse(c)
    \/ \E i \in 1..MaxFiles : ReadFileDone(c, i)
    \/ CreateTreeResponse(c)
    \/ CreateCommitResponse(c)
    \/ UpdateRefResponse(c)

\* The calls of SpecLists where every request to the store and every local
\* read eventually returns.
SpecLive == SpecLists /\ \A c \in Calls : WF_vars(Returns(c))

\* The override tokens a run may be given: none, or one.
ProvidedTokens == {"", "ghp_override"}

\* A run of setupGitHubToken, before the server of the file operations
\* takes any call.
InitSetup ==
    /\ setup \in { IdleSetup(token) : token \in ProvidedTokens }
    /\ prepare = IdlePrepare
    /\ githubToken = ""
    /\ trees = << {}, { [path |-> <<"e">>, content |-> <<"old">>] } >>
    /\ commits = << [tree |-> 1, parents |-> <<>>, message |-> "root"],
                    [tree |-> 2, parents |-> <<1>>, message |-> "base"] >>
    /\ branch = 2
    /\ calls = [c \in Calls |-> IdleCall]

NextSetup ==
    \/ SetupGitHubToken
    \/ \E value \in OidcTokens \cup AppTokens : OperationResolves(value)
    \/ \E error \in {OidcError} \cup ExchangeErrors : OperationRejects(error)
    \/ TimeoutFires

SpecSetup == InitSetup /\ [][NextSetup]_vars

\* A run of the prepare entrypoint, the token setup first.
NextPrepare ==
    \/ NextSetup
    \/ TokenReturned
    \/ \E hasWritePermissions \in BOOLEAN : WritePermissionsChecked(hasWritePermissions)
    \/ \E containsTrigger \in BOOLEAN : TriggerChecked(containsTrigger)
    \/ HumanActorChecked
    \/ CommentCreated
    \/ DataFetched
    \/ \E claudeBranch \in ClaudeBranches : BranchSetUp(claudeBranch)
    \/ TrackingCommentUpdated
    \/ PromptCreated
    \/ McpConfigPrepared
    \/ StepThrows

SpecPrepare == InitSetup /\ [][NextPrepare]_vars

\* ------------------------------------------------------------- claims

\* The files of the tree of a commit.
TreeOf(sha) == trees[commits[sha].tree]

\* Whether a tree shows every path of a call as the call asked: written
\* with the content of the local file for commit_files, absent for
\* delete_files.
AllEntriesReflected(call, tree) ==
    \A i \in 1..Len(call.processed) :
        IF call.tool = "commit_files"
        THEN [path |-> call.processed[i],
              content |-> readFile(join(REPO_DIR, call.processed[i]))] \in tree
        ELSE \A f \in tree : f.path # call.processed[i]

\* C1: atomicity. Whenever the branch moves, it moves by the update-ref of
\* one call, to that call's one new commit, whose sole parent is the tip the
\* branch leaves and whose tree reflects every entry of the call; no step
\* moves the branch to anything else.
C1_Atomicity ==
    [][branch' # branch =>
        \E c \in Calls :
            /\ calls[c].pc = "update-ref"
            /\ calls'[c].pc = "returned" /\ ~calls'[c].isError
            /\ branch' = calls[c].newCommitSha
            /\ commits[branch'].parents = <<branch>>
            /\ AllEntriesReflected(calls[c], TreeOf(branch'))]_vars

\* C1 witness: a call with two different paths succeeded and the branch
\* points at its commit.
C1_Witness ==
    \E c \in Calls :
        /\ calls[c].pc = "returned" /\ ~calls[c].isError
        /\ Len(calls[c].files) >= 2
        /\ calls[c].files[1] # calls[c].files[2]
        /\ branch = calls[c].newCommitSha

\* C2, as claimed: when the update-ref response of a call arrives while the
\* branch points at another commit than the call's baseSha, the call ends in
\* failure and the branch stays where it is.
C2_StaleUpdateRejected ==
    [][\A c \in Calls :
        (/\ calls[c].pc = "update-ref"
         /\ calls'[c].pc = "returned"
         /\ branch # calls[c].baseSha)
        => (calls'[c].isError /\ branch' = branch)]_vars

\* Whether two calls overlap and both went through to the end: both read
\* the same tip, both sent their update-ref, both returned.
Overlapped(c, d) ==
    /\ c # d
    /\ calls[c].pc = "returned" /\ calls[d].pc = "returned"
    /\ Len(calls[c].ops) = 5 /\ Len(calls[d].ops) = 5
    /\ calls[c].baseSha = calls[d].baseSha

\* Whether the store rejected the update-ref of a call as no fast-forward.
Rejected(c) ==
    /\ calls[c].isError
    /\ calls[c].responses[5] = RejectStatus

\* C3: of two overlapping calls never both succeed, so that the other one
\* fails at its update-ref; and one of them does succeed, unless the store
\* answered an update-ref with an error of its own (a 5xx) instead of
\* deciding it: the two are never both rejected.
C3_OneWinner ==
    \A c, d \in Calls :
        Overlapped(c, d) =>
            /\ calls[c].isError \/ calls[d].isError
            /\ ~(Rejected(c) /\ Rejected(d))
            /\ (~calls[c].isError /\ calls[d].responses[5] # FailStatus)
                   => Rejected(d)

\* C3 witness: two overlapping calls, one succeeded, the other was rejected.
C3_Witness ==
    \E c, d \in Calls :
        /\ Overlapped(c, d)
        /\ ~calls[c].isError
        /\ Rejected(d)
        /\ branch = calls[c].newCommitSha

\* The commits in the history of the branch.
Reachable == { sha \in 1..Len(commits) : IsAncestor(sha, branch) }

\* Whether a call failed and nothing it created is in the history of the
\* branch.
FailedWithoutTrace(c) ==
    (calls[c].pc = "returned" /\ calls[c].isError) =>
        \A sha \in Reachable :
            /\ sha # calls[c].newCommitSha
            /\ commits[sha].tree # calls[c].treeSha

\* C4: the step in which a call returns an error leaves the branch where it
\* is, at whichever step the call fails, and the commit and the tree a
\* failed call created, if any, are never in the history of the branch: the
\* branch is where it would be without the call.
C4_FailureLeavesBranch ==
    [][\A c \in Calls :
        /\ (calls[c].pc # "returned" /\ calls'[c].pc = "returned"
                /\ calls'[c].isError) => branch' = branch
        /\ FailedWithoutTrace(c)']_vars

\* C4 witness: a call failed at its update-ref, after it had created its
\* tree and its commit.
C4_Witness ==
    \E c \in Calls :
        /\ calls[c].pc = "returned" /\ calls[c].isError
        /\ Len(calls[c].responses) = 5
        /\ calls[c].newCommitSha \in 1..Len(commits)
        /\ calls[c].treeSha \in 1..Len(trees)

\* C5, as claimed: a call with no path returns an error and has sent no
\* request to the store.
C5_EmptyRequestRejected ==
    \A c \in Calls :
        (calls[c].tool # "none" /\ calls[c].files = <<>>) =>
            /\ calls[c].pc = "returned" /\ calls[c].isError
            /\ calls[c].ops = <<>>

\* Whether a path string is absolute and names a location outside the
\* repository directory.
AbsoluteOutside(filePath) ==
    startsWith(filePath, <<"/">>) /\ ~InsideRepo(Resolve(filePath))

\* C6, as claimed: a commit_files call with an absolute path outside the
\* repository directory returns an error and has sent no request to the
\* store.
C6_OutsidePathRejected ==
    \A c \in Calls :
        (/\ calls[c].tool = "commit_files"
         /\ \E i \in 1..Len(calls[c].files) : AbsoluteOutside(calls[c].files[i]))
        => /\ calls[c].pc = "returned" /\ calls[c].isError
           /\ calls[c].ops = <<>>

\* C7, as claimed: every file a commit_files call has read lies inside the
\* repository directory.
C7_ReadsInsideRepo ==
    \A c \in Calls :
        \A i \in calls[c].readDone :
            InsideRepo(ReadLocation(calls[c].fullPaths[i]))

\* C8, as claimed: no path of the tree entries a call submitted and no path
\* of its result begins with "/".
C8_NoLeadingSeparator ==
    \A c \in Calls :
        /\ \A i \in 1..Len(calls[c].treeEntries) :
               ~startsWith(calls[c].treeEntries[i].path, <<"/">>)
        /\ (calls[c].pc = "returned" /\ ~calls[c].isError) =>
               \A i \in 1..Len(AffectedPaths(calls[c].result)) :
                   ~startsWith(AffectedPaths(calls[c].result)[i], <<"/">>)

\* C9: without GITHUB_TOKEN every call that was made has returned the
\* missing-token error, has sent no request to the store and has read no
\* local file.
C9_MissingToken ==
    \A c \in Calls :
        (githubToken = "" /\ calls[c].tool # "none") =>
            /\ calls[c].pc = "returned" /\ calls[c].isError
            /\ calls[c].error = <<"GITHUB_TOKEN environment variable is required">>
            /\ calls[c].ops = <<>>
            /\ calls[c].fullPaths = <<>> /\ calls[c].readDone = {}

\* C9 witness: a commit_files call and a delete_files call with paths were
\* made without a token.
C9_Witness ==
    /\ githubToken = ""
    /\ \E c, d \in Calls :
        /\ calls[c].tool = "commit_files" /\ calls[c].files # <<>>
        /\ calls[d].tool = "delete_files" /\ calls[d].files # <<>>

\* The store operations of a call, in the order of the handler.
StoreOps == <<"get-ref", "get-commit", "create-tree", "create-commit", "update-ref">>

\* Whether the requests a call has sent are the first of StoreOps, each
\* once, every one but the last answered with success, and none sent after
\* a response that was no success.
InOrder(c) ==
    LET o == calls[c].ops
        r == calls[c].responses
    IN  /\ Len(o) <= Len(StoreOps)
        /\ o = SubSeq(StoreOps, 1, Len(o))
        /\ Len(r) <= Len(o) /\ Len(o) <= Len(r) + 1
        /\ \A i \in 1..Len(r) : i < Len(o) => r[i] = OkStatus
        /\ (\E i \in 1..Len(r) : r[i] # OkStatus) =>
               (calls[c].pc = "returned" /\ calls[c].isError)

\* C10: in every state the requests of a call are in order, and a call that
\* has returned sends no further request.
C10_FixedOrder ==
    [][\A c \in Calls :
        /\ InOrder(c)'
        /\ calls[c].pc = "returned" => calls'[c] = calls[c]]_vars

\* C10 witness: one call went through all five operations and another one
\* stopped at the failure of its create-tree.
C10_Witness ==
    \E c, d \in Calls :
        /\ calls[c].pc = "returned" /\ ~calls[c].isError
        /\ calls[c].ops = StoreOps
        /\ calls[d].pc = "returned" /\ calls[d].isError
        /\ calls[d].responses = <<OkStatus, OkStatus, FailStatus>>

\* How many of the requests a call has sent are the operation op.
Sent(c, op) == Cardinality({ i \in 1..Len(calls[c].ops) : calls[c].ops[i] = op })

\* C11, as claimed: a call reads the branch tip once, before it sends
\* create-tree, create-commit or update-ref; the tree of that commit is the
\* base of its create-tree; and its update-ref is accepted only while the
\* branch still points at that commit.
C11_OneBaseSha ==
    [][\A c \in Calls :
        /\ Sent(c, "get-ref")' <= 1
        /\ (Len(calls'[c].ops) >= 3) =>
               /\ calls'[c].ops[1] = "get-ref"
               /\ calls'[c].baseSha \in 1..Len(commits)
               /\ calls'[c].baseTreeSha = commits[calls'[c].baseSha].tree
        /\ (/\ calls[c].pc = "update-ref"
            /\ calls'[c].pc = "returned" /\ ~calls'[c].isError)
           => branch = calls[c].baseSha]_vars

\* The commits of the store that calls created: those with a call's message.
Created == { sha \in 1..Len(commits) : commits[sha].message \in Messages }

\* C12: every commit a call created has exactly one parent, the sha that
\* call's get-ref returned, and the tree that call's create-tree returned;
\* and every commit the store gained was created by one call.
C12_OneParent ==
    /\ \A c \in Calls : calls[c].newCommitSha # 0 =>
           /\ calls[c].newCommitSha \in Created
           /\ Len(commits[calls[c].newCommitSha].parents) = 1
           /\ commits[calls[c].newCommitSha].parents = <<calls[c].baseSha>>
           /\ commits[calls[c].newCommitSha].tree = calls[c].treeSha
    /\ \A sha \in Created : \E c \in Calls : calls[c].newCommitSha = sha

\* C12 witness: a call created its commit after the branch had left the
\* sha its get-ref returned.
C12_Witness ==
    \E c, d \in Calls :
        /\ c # d
        /\ calls[d].pc = "returned" /\ ~calls[d].isError
        /\ calls[c].baseSha = calls[d].baseSha
        /\ calls[c].newCommitSha > calls[d].newCommitSha
        /\ branch = calls[d].newCommitSha

\* The words with which the handlers report a non-2xx response to each
\* store operation.
FailurePrefix(op) ==
    CASE op = "get-ref" -> "Failed to get branch reference: "
      [] op = "get-commit" -> "Failed to get base commit: "
      [] op = "create-tree" -> "Failed to create tree: "
      [] op = "create-commit" -> "Failed to create commit: "
      [] op = "update-ref" -> "Failed to update reference: "

\* The message of a failed read of a local file.
ReadFailure(fullPath) ==
    <<"ENOENT: no such file or directory, open '">> \o fullPath \o <<"'">>

\* Whether a call has returned after get-commit answered and before any
\* tree was requested: one of its reads threw.
ReadFailed(c) ==
    /\ calls[c].pc = "returned"
    /\ calls[c].ops = <<"get-ref", "get-commit">>
    /\ calls[c].responses = <<OkStatus, OkStatus>>

\* C13: a call returns a result that is no error only after five 2xx
\* responses, one to each store operation, and for commit_files after the
\* read of every file, each of which exists; a non-2xx response is the last
\* one of its call, which then has returned an error with the message of
\* that step, and a call whose read failed has returned an error with the
\* message of that read.
C13_NoSwallowedError ==
    \A c \in Calls :
        /\ (calls[c].pc = "returned" /\ ~calls[c].isError) =>
               /\ calls[c].ops =
                      <<"get-ref", "get-commit", "create-tree", "create-commit", "update-ref">>
               /\ calls[c].responses = [i \in 1..5 |-> OkStatus]
               /\ calls[c].tool = "commit_files" =>
                      /\ calls[c].readDone = 1..Len(calls[c].processed)
                      /\ \A i \in 1..Len(calls[c].processed) :
                             ReadLocation(FullPath(calls[c].processed[i])) # NoEnt
        /\ \A i \in 1..Len(calls[c].responses) :
               calls[c].responses[i] # OkStatus =>
                   /\ i = Len(calls[c].responses)
                   /\ calls[c].pc = "returned" /\ calls[c].isError
                   /\ Len(calls[c].error) >= 2
                   /\ calls[c].error[1] = FailurePrefix(calls[c].ops[i])
                   /\ calls[c].error[2] = calls[c].responses[i]
        /\ ReadFailed(c) =>
               /\ calls[c].isError
               /\ \E i \in 1..Len(calls[c].fullPaths) :
                      /\ ReadLocation(calls[c].fullPaths[i]) = NoEnt
                      /\ calls[c].error = ReadFailure(calls[c].fullPaths[i])

\* C13 witness: a commit_files call read one file and failed at the read of
\* the other, which is missing.
C13_Witness ==
    \E c \in Calls :
        /\ ReadFailed(c) /\ calls[c].isError
        /\ Len(calls[c].readOrder) = 1
        /\ Len(calls[c].processed) = 2

\* C14: in the step in which a call returns its result, the result's commit
\* is the sha create-commit returned and the tip the branch now has, the
\* result's tree is the sha create-tree returned (the tree of that commit),
\* and the result lists one path for each path of the request, in the
\* request's order, each the normalized form of the requested one; for
\* commit_files and for delete_files.
C14_Result ==
    [][\A c \in Calls :
        (calls[c].pc # "returned" /\ calls'[c].pc = "returned" /\ ~calls'[c].isError)
        => LET call == calls'[c]
               paths == AffectedPaths(call.result)
           IN  /\ call.result.commit = calls[c].newCommitSha
               /\ branch' = call.result.commit
               /\ call.result.tree = calls[c].treeSha
               /\ commits[call.result.commit].tree = call.result.tree
               /\ Len(paths) = Len(call.files)
               /\ \A i \in 1..Len(call.files) :
                      paths[i] = IF call.tool = "commit_files"
                                 THEN ProcessFile(call.files[i])
                                 ELSE ProcessPath(call.files[i])]_vars

\* C14 witness: a call with two paths, the first of them not in its
\* normalized form and the second another file, returned its result.
C14_Witness ==
    \E c \in Calls :
        /\ calls[c].pc = "returned" /\ ~calls[c].isError
        /\ Len(calls[c].files) = 2
        /\ calls[c].files[1] # calls[c].processed[1]
        /\ calls[c].processed[1] # calls[c].processed[2]
        /\ branch = calls[c].result.commit

\* The paths a call names, normalized.
PathsOf(call) == { call.processed[i] : i \in 1..Len(call.processed) }

\* C15: in the step in which a call succeeds, the tree of the new tip of the
\* branch has, outside the paths of the request, exactly the files of the
\* tree of the base commit; each path of a commit_files request is in it
\* once, with the content of the local file, and no path of a delete_files
\* request is in it.
C15_Frame ==
    [][\A c \in Calls :
        (calls[c].pc # "returned" /\ calls'[c].pc = "returned" /\ ~calls'[c].isError)
        => LET base == TreeOf(calls[c].baseSha)
               tip == trees[commits[branch'].tree]
           IN  /\ { f \in tip : f.path \notin PathsOf(calls[c]) }
                      = { f \in base : f.path \notin PathsOf(calls[c]) }
               /\ AllEntriesReflected(calls[c], tip)
               /\ \A p \in PathsOf(calls[c]) :
                      Cardinality({ f \in tip : f.path = p })
                          = IF calls[c].tool = "commit_files" THEN 1 ELSE 0]_vars

\* C15 witness: a call succeeded on a base commit that another call created
\* and whose tree has a file the request does not name.
C15_Witness ==
    \E c \in Calls :
        /\ calls[c].pc = "returned" /\ ~calls[c].isError
        /\ branch = calls[c].newCommitSha
        /\ calls[c].baseSha \in Created
        /\ calls[c].processed # <<>>
        /\ \E f \in TreeOf(calls[c].baseSha) : f.path \notin PathsOf(calls[c])

\* C16: a delete_files call never reads a local file, and the entries it
\* submits to create-tree are one removal entry (null sha, no content) for
\* each requested path, in the request's order.
C16_DeletionsOnly ==
    \A c \in Calls : calls[c].tool = "delete_files" =>
        /\ calls[c].pc # "readFile"
        /\ calls[c].fullPaths = <<>>
        /\ calls[c].readDone = {} /\ calls[c].readOrder = <<>>
        /\ "create-tree" \in { calls[c].ops[i] : i \in 1..Len(calls[c].ops) } =>
               /\ Len(calls[c].treeEntries) = Len(calls[c].files)
               /\ \A i \in 1..Len(calls[c].files) :
                      LET e == calls[c].treeEntries[i]
                      IN  /\ e.path = ProcessPath(calls[c].files[i])
                          /\ "content" \notin DOMAIN e
                          /\ "sha" \in DOMAIN e /\ e.sha = "null"

\* C16 witness: a delete_files call with two paths has submitted its
\* entries to create-tree.
C16_Witness ==
    \E c \in Calls :
        /\ calls[c].tool = "delete_files"
        /\ Len(calls[c].files) = 2
        /\ calls[c].files[1] # calls[c].files[2]
        /\ Len(calls[c].ops) >= 3

\* The paths of a commit_files request that have no local file.
Missing(files) ==
    { i \in 1..Len(files) : ReadLocation(FullPath(ProcessFile(files[i]))) = NoEnt }

\* C17: a commit_files call one of whose paths has no local file sends
\* neither create-tree nor create-commit nor update-ref and returns nothing
\* but an error, in whatever order its reads complete; it returns as soon
\* as the read of a missing file completes.
C17_MissingFile ==
    [][\A c \in Calls :
        (calls'[c].tool = "commit_files" /\ Missing(calls'[c].files) # {}) =>
            /\ \A i \in 1..Len(calls'[c].ops) :
                   calls'[c].ops[i] \in {"get-ref", "get-commit"}
            /\ calls'[c].pc = "returned" => calls'[c].isError
            /\ calls'[c].readDone \cap Missing(calls'[c].files) = {}
            /\ (calls[c].pc = "readFile" /\ calls'[c].readDone = calls[c].readDone
                /\ calls'[c] # calls[c])
               => ReadFailed(c)']_vars

\* C17 witness: the second read, of a file that exists, completed before
\* the first, of a missing file, and the call has failed.
C17_Witness ==
    \E c \in Calls :
        /\ calls[c].tool = "commit_files"
        /\ Missing(calls[c].files) = {1}
        /\ calls[c].readOrder = <<2>>
        /\ ReadFailed(c) /\ calls[c].isError

\* Whether a call has sent create-tree.
TreeRequested(c) == \E k \in 1..Len(calls[c].ops) : calls[c].ops[k] = "create-tree"

\* C18: commit_files never reads an entry of its request twice; when it
\* sends create-tree, the read of every entry has completed, once, and the
\* entry list has the entries in the order of the request's paths, each
\* with the content read for its path, in whatever order the reads
\* completed.
C18_ReadsThenTree ==
    \A c \in Calls : calls[c].tool = "commit_files" =>
        /\ \A j, k \in 1..Len(calls[c].readOrder) :
               /\ calls[c].readOrder[j] \in 1..Len(calls[c].files)
               /\ j # k => calls[c].readOrder[j] # calls[c].readOrder[k]
        /\ TreeRequested(c) =>
               /\ Len(calls[c].readOrder) = Len(calls[c].files)
               /\ calls[c].readDone = 1..Len(calls[c].files)
               /\ Len(calls[c].treeEntries) = Len(calls[c].files)
               /\ \A i \in 1..Len(calls[c].files) :
                      LET e == calls[c].treeEntries[i]
                      IN  /\ e.path = ProcessFile(calls[c].files[i])
                          /\ e.content = readFile(FullPath(e.path))

\* C18 witness: the read of the second of two different files completed
\* before the read of the first, and create-tree was sent.
C18_Witness ==
    \E c \in Calls :
        /\ calls[c].tool = "commit_files"
        /\ TreeRequested(c)
        /\ calls[c].readOrder = <<2, 1>>
        /\ calls[c].treeEntries[1].path # calls[c].treeEntries[2].path

\* C19, as claimed: the entries a call submits to create-tree for different
\* input paths have different paths.
C19_UniquePaths ==
    \A c \in Calls :
        \A i, j \in 1..Len(calls[c].treeEntries) :
            calls[c].files[i] # calls[c].files[j] =>
                calls[c].treeEntries[i].path # calls[c].treeEntries[j].path

\* The payload text of the store's response of a status.
PayloadText(status) == IF status = RejectStatus THEN RejectText ELSE FailText

\* C20, as claimed: a call that got a non-2xx response to any of the five
\* store operations has failed with a message that holds the text of that
\* response's payload.
C20_PayloadPreserved ==
    \A c \in Calls :
        \A i \in 1..Len(calls[c].responses) :
            calls[c].responses[i] # OkStatus =>
                /\ calls[c].pc = "returned" /\ calls[c].isError
                /\ \E k \in 1..Len(calls[c].error) :
                       calls[c].error[k] = PayloadText(calls[c].responses[i])

\* Whether a step starts the handler of call c: a first invocation, or its
\* caller running it again.
Started(c) == calls[c].pc \in {"idle", "returned"} /\ calls'[c].pc = "get-ref"

\* C21: a handler starts with none of the locals of an earlier run (no base,
\* no tree, no commit, no entries) and with get-ref as its only request;
\* every get-ref response gives the call the tip the branch has at that
\* moment; and when a call that was run again after a rejected update-ref
\* gets its update-ref response while the branch is still where it was when
\* the re-run began, its base is that tip, the update is a fast-forward and
\* is not rejected, and on a 2xx response the call succeeds and the new tip
\* has that tip as its sole parent.
C21_RerunFromTop ==
    [][\A c \in Calls :
        /\ Started(c) =>
               /\ calls'[c].baseSha = 0 /\ calls'[c].baseTreeSha = 0
               /\ calls'[c].treeSha = 0 /\ calls'[c].newCommitSha = 0
               /\ calls'[c].treeEntries = <<>> /\ calls'[c].readDone = {}
               /\ calls'[c].ops = <<"get-ref">> /\ calls'[c].responses = <<>>
               /\ ~calls'[c].isError
        /\ (calls[c].pc = "get-ref" /\ calls'[c].pc = "get-commit") =>
               calls'[c].baseSha = branch
        /\ (/\ calls[c].pc = "update-ref" /\ calls'[c].pc = "returned"
            /\ calls[c].retryTip # 0 /\ branch = calls[c].retryTip)
           => LET status == calls'[c].responses[Len(calls'[c].responses)]
              IN  /\ calls[c].baseSha = calls[c].retryTip
                  /\ IsAncestor(branch, calls[c].newCommitSha)
                  /\ status # RejectStatus
                  /\ status = OkStatus =>
                         /\ ~calls'[c].isError
                         /\ branch' = calls[c].newCommitSha
                         /\ commits[branch'].parents = <<calls[c].retryTip>>]_vars

\* C21 witness: a call whose update-ref was rejected was run again on the
\* commit of the call that had won, and succeeded.
C21_Witness ==
    \E c \in Calls :
        /\ calls[c].retryTip \in Created
        /\ calls[c].pc = "returned" /\ ~calls[c].isError
        /\ branch = calls[c].newCommitSha
        /\ commits[branch].parents = <<calls[c].retryTip>>

\* C22: a step in which a call gets its get-ref or its get-commit response
\* leaves the branch, the commits and the trees of the store as they were;
\* a get-ref answered while the branch is where another call's get-ref found
\* it returns the same commit sha; and the get-commit of two calls with the
\* same base commit return the same tree sha.
C22_ReadsArePure ==
    [][\A c \in Calls :
        /\ (calls[c].pc \in {"get-ref", "get-commit"} /\ calls'[c] # calls[c]) =>
               /\ branch' = branch /\ commits' = commits /\ trees' = trees
        /\ \A d \in Calls \ {c} :
               /\ (/\ calls[d].pc = "get-ref" /\ calls'[d].pc = "get-commit"
                   /\ calls[c].baseSha = branch)
                  => calls'[d].baseSha = calls[c].baseSha
               /\ (/\ calls'[c].baseTreeSha # 0 /\ calls'[d].baseTreeSha # 0
                   /\ calls'[c].baseSha = calls'[d].baseSha)
                  => calls'[c].baseTreeSha = calls'[d].baseTreeSha]_vars

\* C22 witness: two calls have read the same base commit and the same tree,
\* and the branch has moved to the commit of one while the other has not
\* yet built its tree.
C22_Witness ==
    \E c, d \in Calls :
        /\ c # d
        /\ calls[c].newCommitSha # 0
        /\ calls[d].baseSha = calls[c].baseSha
        /\ calls[d].baseTreeSha # 0
        /\ calls[d].treeSha = 0
        /\ branch = calls[c].newCommitSha

\* C23, as claimed: the path handling of the tool a call did not use agrees
\* with what the call did with its paths: a list that commit_files took is
\* not rejected by delete_files and gives the same entry paths there, a list
\* that delete_files took gives the same entry paths in commit_files, and
\* delete_files rejects no list, since commit_files rejects none.
C23_SamePathHandling ==
    \A c \in Calls :
        /\ (calls[c].tool = "commit_files" /\ calls[c].ops # <<>>) =>
               /\ \A i \in 1..Len(calls[c].files) : ~PathRejected(calls[c].files[i])
               /\ calls[c].processed = ProcessedPaths(calls[c].files)
        /\ (calls[c].tool = "delete_files" /\ calls[c].ops # <<>>) =>
               calls[c].processed = ProcessedFiles(calls[c].files)
        /\ (calls[c].tool = "delete_files" /\ githubToken # "") =>
               calls[c].ops # <<>>

\* Whether a location is the repository directory or lies inside it.
AtOrInsideRepo(loc) ==
    LET root == Resolve(REPO_DIR)
    IN  Len(loc) >= Len(root) /\ SubSeq(loc, 1, Len(root)) = root

\* C24, as claimed: a delete_files call with an absolute path whose location
\* is neither the repository directory nor inside it returns an error and
\* has sent no request to the store; and the entry path of an absolute path
\* it accepted names, from the repository directory, the location of that
\* path.
C24_DeleteOutsideRejected ==
    \A c \in Calls : calls[c].tool = "delete_files" =>
        \A i \in 1..Len(calls[c].files) :
            startsWith(calls[c].files[i], <<"/">>) =>
                /\ ~AtOrInsideRepo(Resolve(calls[c].files[i])) =>
                       /\ calls[c].pc = "returned" /\ calls[c].isError
                       /\ calls[c].ops = <<>>
                /\ calls[c].ops # <<>> =>
                       Resolve(REPO_DIR \o <<"/">> \o calls[c].processed[i])
                           = Resolve(calls[c].files[i])

\* The calls that have succeeded.
Succeeded == { c \in Calls : calls[c].pc = "returned" /\ ~calls[c].isError }

\* C25: with no other client of the store, every new tip of the branch has
\* the tip it replaces as its sole parent, and after every step the commit
\* of every call that has succeeded is the tip of the branch or one of its
\* ancestors.
C25_SingleChain ==
    [][/\ branch' # branch =>
              /\ Len(commits'[branch'].parents) = 1
              /\ commits'[branch'].parents[1] = branch
       /\ \A c \in Succeeded' : IsAncestor(calls'[c].newCommitSha, branch')]_vars

\* C25 witness: two calls have succeeded, one on top of the other, and the
\* commit of the first is the parent of the tip.
C25_Witness ==
    \E c, d \in Succeeded :
        /\ c # d
        /\ branch = calls[d].newCommitSha
        /\ commits[branch].parents = <<calls[c].newCommitSha>>

\* Whether a call has returned one outcome: its result after five requests,
\* the last of them the accepted update-ref, or an error with its message.
Outcome(c) ==
    /\ calls[c].pc = "returned"
    /\ \/ /\ ~calls[c].isError
          /\ calls[c].result # <<>> /\ calls[c].error = <<>>
          /\ Len(calls[c].ops) = 5 /\ calls[c].ops[5] = "update-ref"
          /\ calls[c].responses[5] = OkStatus
       \/ /\ calls[c].isError
          /\ calls[c].error # <<>> /\ calls[c].result = <<>>

\* C26: when every request and read returns, every call that was made
\* returns; a call that has returned has one outcome, success after the ref
\* update or an error with its message, and never leaves it.
C26_Terminates ==
    /\ \A c \in Calls : (calls[c].pc # "idle") ~> (calls[c].pc = "returned")
    /\ [](\A c \in Calls : calls[c].pc = "returned" => Outcome(c))
    /\ [][\A c \in Calls : calls[c].pc = "returned" => calls'[c] = calls[c]]_vars

\* C26 witness: a call that read two files and sent all five requests has
\* returned its result.
C26_Witness ==
    \E c \in Calls :
        /\ Outcome(c) /\ ~calls[c].isError
        /\ Len(calls[c].readOrder) = 2

\* The entries of a log of the token setup that belong to a phase.
OfPhase(log, phase) == SelectSeq(log, LAMBDA e : e.phase = phase)

\* Whether the retryWithBackoff of a phase has returned a value.
Returned(phase) == OfPhase(setup.resolved, phase) # <<>>

\* C27: in each of its two runs retryWithBackoff invokes its operation at
\* most maxAttempts times, as attempts 1, 2, ...; every invocation but the
\* one that returned or is awaited has thrown, so nothing is invoked after
\* the first success; the value it returns (the OIDC token kept, the token
\* returned) is the value of that last invocation; and when maxAttempts
\* invocations have thrown, and only then, it has thrown, the error being
\* that of the last attempt.
C27_RetryAttempts ==
    /\ \A phase \in {"oidc", "exchange"} :
           LET ops == OfPhase(setup.operations, phase)
               errs == OfPhase(setup.errors, phase)
               vals == OfPhase(setup.resolved, phase)
               awaited == IF setup.phase = phase /\ setup.pc = "operation"
                          THEN 1 ELSE 0
           IN  /\ Len(ops) <= maxAttempts
               /\ \A k \in 1..Len(ops) : ops[k].attempt = k
               /\ Len(vals) <= 1
               /\ Len(ops) = Len(errs) + Len(vals) + awaited
               /\ \A k \in 1..Len(errs) : errs[k].attempt = k
               /\ vals # <<>> => vals[1].attempt = Len(ops)
               /\ (Len(errs) = maxAttempts) <=>
                      (setup.pc = "exited" /\ setup.phase = phase)
               /\ (setup.pc = "exited" /\ setup.phase = phase) =>
                      /\ setup.lastError = errs[maxAttempts].error
                      /\ setup.failed[2] = errs[maxAttempts].error
    /\ Returned("oidc") =>
           setup.oidcToken = OfPhase(setup.resolved, "oidc")[1].value
    /\ Returned("exchange") =>
           /\ setup.pc = "returned"
           /\ setup.returned = OfPhase(setup.resolved, "exchange")[1].value

\* C27 witness: the exchange threw twice, with different errors, and
\* returned its token at the third attempt.
C27_Witness ==
    LET errs == OfPhase(setup.errors, "exchange")
    IN  /\ Returned("exchange")
        /\ Len(errs) = 2 /\ errs[1].error # errs[2].error
        /\ Len(OfPhase(setup.operations, "exchange")) = maxAttempts

\* b to the power n.
RECURSIVE Pow(_, _)
Pow(b, n) == IF n = 0 THEN 1 ELSE b * Pow(b, n - 1)

\* The length the claim gives the k-th wait of a run of retryWithBackoff.
ClaimedWait(k) == Min(initialDelayMs * Pow(backoffFactor, k - 1), maxDelayMs)

C29_Override ==
    (setup.providedToken # "" /\ setup.pc # "start") =>
        /\ setup.pc = "returned"
        /\ setup.returned = setup.providedToken
        /\ setup.output = setup.providedToken
        /\ setup.operations = <<>> /\ setup.waits = <<>>
        /\ setup.oidcToken = ""
        /\ setup.failed = <<>> /\ setup.exitCode = 0

\* C29 witness: a run with an override token has returned.
C29_Witness ==
    /\ setup.providedToken \in ProvidedTokens \ {""}
    /\ setup.pc = "returned"
    /\ setup.output = setup.providedToken

\* C30: in a run without an override token, every invocation of the
\* exchange comes after the OIDC request returned and after every OIDC
\* request, and carries the OIDC token that request returned, the same at
\* every attempt; the GITHUB_TOKEN output is set only to the token a
\* successful exchange returned; and when the attempts of a phase have all
\* thrown, and only then, no output is set, the action is marked failed and
\* the process has exited with a code that is not zero.
C30_TokenExchange ==
    setup.providedToken = "" =>
        LET ops == setup.operations
            oidc == OfPhase(setup.resolved, "oidc")
            exchanged == OfPhase(setup.resolved, "exchange")
        IN  /\ Len(oidc) <= 1
            /\ \A k \in 1..Len(ops) : ops[k].phase = "exchange" =>
                   /\ oidc # <<>>
                   /\ ops[k].oidcToken = oidc[1].value
                   /\ ops[k].oidcToken \in OidcTokens
                   /\ \A j \in k..Len(ops) : ops[j].phase = "exchange"
            /\ setup.output # "" =>
                   /\ exchanged # <<>>
                   /\ setup.output = exchanged[1].value
                   /\ setup.pc = "returned" /\ setup.returned = setup.output
            /\ (\E phase \in {"oidc", "exchange"} :
                    Len(OfPhase(setup.errors, phase)) = maxAttempts)
               <=> setup.pc = "exited"
            /\ setup.pc = "exited" =>
                   /\ setup.output = "" /\ setup.returned = ""
                   /\ setup.failed # <<>>
                   /\ setup.exitCode # 0
            /\ setup.pc # "exited" => (setup.failed = <<>> /\ setup.exitCode = 0)

\* C30 witness: the OIDC token came at the second request and the exchange
\* returned the app token at its third attempt, all three with that token.
C30_Witness ==
    /\ setup.providedToken = ""
    /\ setup.pc = "returned" /\ setup.output \in AppTokens
    /\ Len(OfPhase(setup.operations, "oidc")) = 2
    /\ Len(OfPhase(setup.operations, "exchange")) = 3

\* The steps of the prepare run that have an effect outside the run.
SideEffects == {"createInitialComment", "setupBranch", "createPrompt", "mcp_config"}

\* The checks of the prepare run, in the order the claim gives them.
Checks ==
    <<"setupGitHubToken", "checkWritePermissions", "checkTriggerAction",
      "checkHumanActor">>

\* The checks that had passed before the k-th event of the run, in order.
PassedBefore(k) ==
    LET passes == SelectSeq(SubSeq(prepare.events, 1, k - 1),
                            LAMBDA e : e.event = "passed")
    IN  [i \in 1..Len(passes) |-> passes[i].step]

\* C31: before any step with an outside effect (the tracking comment, the
\* branch, the prompt, the mcp_config output) the token setup, the
\* write-permission check, the trigger check and the human-actor check have
\* passed, in that order, the token setup having returned; a run that found
\* no trigger has returned without failure and with none of those steps;
\* and a run in which a step threw, or whose token setup exited, is marked
\* failed, has exited with code 1 and has set no mcp_config output.
C31_PrepareOrder ==
    /\ \A k \in 1..Len(prepare.events) :
           prepare.events[k].step \in SideEffects =>
               /\ PassedBefore(k) = Checks
               /\ setup.pc = "returned"
    /\ prepare.mcpConfig # "" =>
           /\ prepare.events[Len(prepare.events)].step = "mcp_config"
           /\ prepare.pc = "returned" /\ prepare.thrown = <<>>
    /\ prepare.containsTrigger = "no" =>
           /\ prepare.pc = "returned"
           /\ prepare.failed = <<>> /\ prepare.exitCode = 0
           /\ \A k \in 1..Len(prepare.events) :
                  prepare.events[k].step \notin SideEffects
           /\ prepare.mcpConfig = ""
    /\ prepare.thrown # <<>> =>
           /\ prepare.pc = "exited"
           /\ prepare.failed # <<>> /\ prepare.exitCode = 1
           /\ prepare.mcpConfig = ""
    /\ setup.pc = "exited" =>
           /\ setup.failed # <<>> /\ setup.exitCode = 1
           /\ prepare.events = <<>> /\ prepare.mcpConfig = ""

\* C31 witness: a run whose token came from the exchange passed the four
\* checks, set up a new branch and set the mcp_config output.
C31_Witness ==
    /\ prepare.pc = "returned" /\ prepare.mcpConfig # ""
    /\ prepare.claudeBranch # ""
    /\ setup.providedToken = ""
    /\ PassedBefore(Len(prepare.events)) = Checks

====
